---- MODULE Spec2Model ----
(***************************************************************************)
(* Model of app/main.py: a FastAPI application object `app` with two GET   *)
(* path operations, read_root ("/") and read_item ("/hello/{name}").       *)
(*                                                                         *)
(* main.py holds no routing code of its own: `app = FastAPI()` and the two *)
(* `@app.get(...)` decorators build a route table, and every request is    *)
(* answered by the framework's dispatch over that table.  The model        *)
(* therefore follows what those three statements set up: the route table   *)
(* FastAPI() starts with (its documentation routes), the two routes the    *)
(* decorators append, the router's matching loop (full match, partial      *)
(* match -> 405, trailing-slash redirect, 404) and the call of the matched *)
(* endpoint.                                                               *)
(*                                                                         *)
(* Text is modelled as a sequence of tokens.  A token is one character     *)
(* ("/"), one percent-escape of the request line ("%2F"), or a run of      *)
(* characters that is never split in this model ("hello", "docs").         *)
(* A response body is modelled by its content (a JSON object, or raw       *)
(* bytes), not by its serialised bytes.                                    *)
(***************************************************************************)
EXTENDS Naturals, Sequences, FiniteSets, TLC

\* Longest request path, in segments ("/hello/x" has two).
MaxSegments == 2

\* Number of connections whose requests may be in flight at once.
NumConns == 2

VARIABLES
    routes,     \* app.router.routes: the route table
    pc,         \* per connection: where its request is in the handling
    scope,      \* per connection: the ASGI scope of the request in flight
    response,   \* per connection: the response built for the request
    served      \* history: at most one exchange remembered from the past

vars == <<routes, pc, scope, response, served>>

Conns == 1 .. NumConns

-----------------------------------------------------------------------------
(* Requests on the wire *)

Methods == {"GET", "HEAD", "POST"}

\* The segments a request path is built from; <<>> is the empty segment.
Segments == {<< >>, <<"hello">>, <<"docs">>, <<"%2F">>, <<"%E4%B8%96">>}

RECURSIVE JoinPath(_)
JoinPath(segs) ==
    IF segs = << >> THEN << >>
    ELSE <<"/">> \o Head(segs) \o JoinPath(Tail(segs))

RawPaths ==
    {JoinPath(s) : s \in UNION {[1 .. n -> Segments] : n \in 1 .. MaxSegments}}

Requests == [method : Methods, raw_path : RawPaths]

\* The requests of the concurrent configuration.
ConcRequests ==
    { [method |-> "GET",  raw_path |-> <<"/">>],
      [method |-> "POST", raw_path |-> <<"/">>],
      [method |-> "GET",  raw_path |-> <<"/", "hello", "/", "%E4%B8%96">>],
      [method |-> "GET",  raw_path |-> <<"/", "hello", "/", "docs">>],
      [method |-> "GET",  raw_path |-> <<"/", "hello", "/">>],
      [method |-> "GET",  raw_path |-> <<"/", "docs", "/">>] }

-----------------------------------------------------------------------------
(* The server's percent-decoding of the request path (scope["path"]) *)

PercentDecode(t) ==
    CASE t = "%2F"       -> "/"
      [] t = "%E4%B8%96" -> "U+4E16"
      [] OTHER           -> t

unquote(raw) == [i \in 1 .. Len(raw) |-> PercentDecode(raw[i])]

-----------------------------------------------------------------------------
(* The route table *)

\* starlette Route added by FastAPI.setup(): a function endpoint gets GET,
\* and GET brings HEAD.
Route(path, endpoint) ==
    [path |-> path, methods |-> {"GET", "HEAD"}, endpoint |-> endpoint]

\* Variant: the decorator's route built as a starlette Route, GET bringing HEAD.
get_with_head(path, endpoint) ==
    [path |-> path, methods |-> {"GET", "HEAD"}, endpoint |-> endpoint]

\* fastapi APIRoute added by @app.get(path): exactly the decorator's method.
get(path, endpoint) ==
    [path |-> path, methods |-> {"GET"}, endpoint |-> endpoint]

\* app = FastAPI(): openapi_url, docs_url, swagger_ui_oauth2_redirect_url and
\* redoc_url keep their defaults, so setup() registers four routes.
FastAPI ==
    << Route(<<"/", "openapi.json">>, "openapi"),
       Route(<<"/", "docs">>, "swagger_ui_html"),
       Route(<<"/", "docs", "/", "oauth2-redirect">>, "swagger_ui_redirect"),
       Route(<<"/", "redoc">>, "redoc_html") >>

\* The module after import: FastAPI() and the two decorated functions.
app ==
    FastAPI \o << get(<<"/">>, "read_root"),
                  get(<<"/", "hello", "/", "{name}">>, "read_item") >>

-----------------------------------------------------------------------------
(* The endpoints *)

\* Variant: the greeting reworded.
read_root_reworded == [message |-> <<"Welcome to the FastAPI app!">>]

\* Variant: the greeting depends on whether a request was answered before.
read_root_counting ==
    [message |-> IF served = {}
                 THEN <<"Welcome to the FastAPI ECS Fargate app!">>
                 ELSE <<"Welcome back to the FastAPI ECS Fargate app!">>]

read_root == [message |-> <<"Welcome to the FastAPI ECS Fargate app!">>]

\* Variant: the closing "!" of the f-string left out.
read_item_unterminated(name) == [message |-> <<"Hello ">> \o name]

\* Variant: the greeting returned under another key.
read_item_renamed(name) == [msg |-> <<"Hello ">> \o name \o <<"!">>]

read_item(name) == [message |-> <<"Hello ">> \o name \o <<"!">>]

-----------------------------------------------------------------------------
(* Path matching: starlette compile_path and Route.matches *)

\* The path parameters of the route table.  A "{name}" token of a route path
\* compiles to the named group (?P<name>[^/]+): one or more tokens, none "/".
IsParam(t) == t \in {"{name}"}

ParamName(t) == CASE t = "{name}" -> "name"

NoMatch == [ok |-> FALSE, params |-> << >>]

Longest(ks) == CHOOSE k \in ks : \A j \in ks : j <= k

\* Variant: the regex without its closing "$": a prefix of the path matches.
RECURSIVE regex_match_unanchored(_, _)
regex_match_unanchored(pattern, path) ==
    IF pattern = << >> THEN [ok |-> TRUE, params |-> << >>]
    ELSE IF ~IsParam(Head(pattern))
    THEN IF path # << >> /\ Head(path) = Head(pattern)
         THEN regex_match_unanchored(Tail(pattern), Tail(path))
         ELSE NoMatch
    ELSE LET ks == {k \in 1 .. Len(path) :
                        /\ \A i \in 1 .. k : path[i] # "/"
                        /\ regex_match_unanchored(Tail(pattern),
                                       SubSeq(path, k + 1, Len(path))).ok}
         IN  IF ks = {} THEN NoMatch
             ELSE LET k    == Longest(ks)
                      rest == regex_match_unanchored(Tail(pattern),
                                          SubSeq(path, k + 1, Len(path)))
                  IN  [ok     |-> TRUE,
                       params |-> (ParamName(Head(pattern)) :> SubSeq(path, 1, k))
                                  @@ rest.params]

\* Variant: the parameter group as [^/]* : an empty segment matches.
RECURSIVE regex_match_star(_, _)
regex_match_star(pattern, path) ==
    IF pattern = << >> THEN [ok |-> path = << >>, params |-> << >>]
    ELSE IF ~IsParam(Head(pattern))
    THEN IF path # << >> /\ Head(path) = Head(pattern)
         THEN regex_match_star(Tail(pattern), Tail(path))
         ELSE NoMatch
    ELSE LET ks == {k \in 0 .. Len(path) :
                        /\ \A i \in 1 .. k : path[i] # "/"
                        /\ regex_match_star(Tail(pattern),
                                       SubSeq(path, k + 1, Len(path))).ok}
         IN  IF ks = {} THEN NoMatch
             ELSE LET k    == Longest(ks)
                      rest == regex_match_star(Tail(pattern),
                                          SubSeq(path, k + 1, Len(path)))
                  IN  [ok     |-> TRUE,
                       params |-> (ParamName(Head(pattern)) :> SubSeq(path, 1, k))
                                  @@ rest.params]

\* path_regex.match(route_path) for the regex "^" + pattern + "$".
RECURSIVE regex_match(_, _)
regex_match(pattern, path) ==
    IF pattern = << >> THEN [ok |-> path = << >>, params |-> << >>]
    ELSE IF ~IsParam(Head(pattern))
    THEN IF path # << >> /\ Head(path) = Head(pattern)
         THEN regex_match(Tail(pattern), Tail(path))
         ELSE NoMatch
    ELSE LET ks == {k \in 1 .. Len(path) :
                        /\ \A i \in 1 .. k : path[i] # "/"
                        /\ regex_match(Tail(pattern),
                                       SubSeq(path, k + 1, Len(path))).ok}
         IN  IF ks = {} THEN NoMatch
             ELSE LET k    == Longest(ks)
                      rest == regex_match(Tail(pattern),
                                          SubSeq(path, k + 1, Len(path)))
                  IN  [ok     |-> TRUE,
                       params |-> (ParamName(Head(pattern)) :> SubSeq(path, 1, k))
                                  @@ rest.params]

\* Route.matches(scope): Match.NONE, Match.PARTIAL (path matches, method does
\* not) or Match.FULL, with the path parameters.
matches(route, sc) ==
    LET m == regex_match(route.path, sc.path)
    IN  IF ~m.ok THEN [match |-> "NONE", path_params |-> << >>]
        ELSE IF sc.method \notin route.methods
        THEN [match |-> "PARTIAL", path_params |-> m.params]
        ELSE [match |-> "FULL", path_params |-> m.params]

-----------------------------------------------------------------------------
(* Responses *)

NoResponse == [status_code |-> 0, headers |-> << >>, body |-> [bytes |-> << >>]]

JSONResponse(status_code, content) ==
    [status_code |-> status_code,
     headers     |-> ("content-type" :> <<"application/json">>),
     body        |-> [json |-> content]]

HTMLResponse(html) ==
    [status_code |-> 200,
     headers     |-> ("content-type" :> <<"text/html; charset=utf-8">>),
     body        |-> [bytes |-> html]]

\* RedirectResponse(url): 307, a location header, an empty body and, having
\* no media type, no content-type header.
RedirectResponse(url) ==
    [status_code |-> 307,
     headers     |-> ("location" :> url),
     body        |-> [bytes |-> << >>]]

\* Variant: the 404 as starlette answers it without FastAPI's handler.
not_found_plain ==
    [status_code |-> 404,
     headers     |-> ("content-type" :> <<"text/plain; charset=utf-8">>),
     body        |-> [bytes |-> <<"Not Found">>]]

\* Router.not_found raises HTTPException(404); FastAPI's handler for
\* HTTPException answers {"detail": <status phrase>}.
not_found == JSONResponse(404, [detail |-> <<"Not Found">>])

\* Route.handle on a method outside route.methods raises HTTPException(405)
\* with an Allow header naming the route's methods.
method_not_allowed(route) ==
    [JSONResponse(405, [detail |-> <<"Method Not Allowed">>])
        EXCEPT !.headers = @ @@ ("allow" :> <<route.methods>>)]

-----------------------------------------------------------------------------
(* Router.app: the dispatch over the route table *)

RECURSIVE rstrip(_)
rstrip(path) ==
    IF path # << >> /\ path[Len(path)] = "/"
    THEN rstrip(SubSeq(path, 1, Len(path) - 1))
    ELSE path

\* The path the router retries when nothing matched (redirect_slashes).
redirect_path(path) ==
    IF path # << >> /\ path[Len(path)] = "/" THEN rstrip(path)
    ELSE path \o <<"/">>

First(is) == CHOOSE i \in is : \A j \in is : i <= j

\* The outcome of the routing loop for scope sc over route table rts: either
\* the scope updated with the matched endpoint and its path parameters, or a
\* response of the router's own.
router(rts, sc) ==
    LET full     == {i \in DOMAIN rts : matches(rts[i], sc).match = "FULL"}
        partial  == {i \in DOMAIN rts : matches(rts[i], sc).match = "PARTIAL"}
        redirect == [sc EXCEPT !.path = redirect_path(sc.path)]
    IN  IF full # {}
        THEN [scope    |-> [sc EXCEPT
                              !.endpoint = rts[First(full)].endpoint,
                              !.path_params = matches(rts[First(full)], sc).path_params],
              response |-> NoResponse]
        ELSE IF partial # {}
        THEN [scope    |-> [sc EXCEPT
                              !.endpoint = rts[First(partial)].endpoint,
                              !.path_params = matches(rts[First(partial)], sc).path_params],
              response |-> method_not_allowed(rts[First(partial)])]
        ELSE IF /\ sc.path # <<"/">>
                /\ \E i \in DOMAIN rts : matches(rts[i], redirect).match # "NONE"
        THEN [scope |-> sc, response |-> RedirectResponse(redirect.path)]
        ELSE [scope |-> sc, response |-> not_found]

\* The call of the matched endpoint and the response class that wraps its
\* return value.  The documentation endpoints' contents are placeholders.
request_response(endpoint, path_params) ==
    CASE endpoint = "read_root" -> JSONResponse(200, read_root)
      [] endpoint = "read_item" -> JSONResponse(200, read_item(path_params["name"]))
      [] endpoint = "openapi" ->
            JSONResponse(200, [openapi |-> <<"version">>,
                               info    |-> <<"info">>,
                               paths   |-> <<"paths">>])
      [] endpoint = "swagger_ui_html"     -> HTMLResponse(<<"swagger-ui">>)
      [] endpoint = "swagger_ui_redirect" -> HTMLResponse(<<"oauth2-redirect">>)
      [] endpoint = "redoc_html"          -> HTMLResponse(<<"redoc">>)

-----------------------------------------------------------------------------
(* The state machine *)

NoScope ==
    [method |-> "", raw_path |-> << >>, path |-> << >>,
     endpoint |-> "", path_params |-> << >>]

Init ==
    /\ routes = app
    /\ pc = [c \in Conns |-> "idle"]
    /\ scope = [c \in Conns |-> NoScope]
    /\ response = [c \in Conns |-> NoResponse]
    /\ served = {}

\* The server reads a request line and builds the scope: the path the
\* application sees is the percent-decoded one.
Receive(c, req) ==
    /\ pc[c] = "idle"
    /\ scope' = [scope EXCEPT ![c] =
                    [method      |-> req.method,
                     raw_path    |-> req.raw_path,
                     path        |-> unquote(req.raw_path),
                     endpoint    |-> "",
                     path_params |-> << >>]]
    /\ pc' = [pc EXCEPT ![c] = "routing"]
    /\ UNCHANGED <<routes, response, served>>

\* Variant: the matched path parameters kept on the route, so that every
\* request waiting for the same endpoint sees the latest ones.
Dispatch_shared_params(c) ==
    /\ pc[c] = "routing"
    /\ LET r == router(routes, scope[c])
       IN  /\ scope' = [d \in Conns |->
                          IF d = c THEN r.scope
                          ELSE IF /\ pc[d] = "endpoint"
                                  /\ r.response = NoResponse
                                  /\ scope[d].endpoint = r.scope.endpoint
                          THEN [scope[d] EXCEPT !.path_params = r.scope.path_params]
                          ELSE scope[d]]
           /\ response' = [response EXCEPT ![c] = r.response]
           /\ pc' = [pc EXCEPT ![c] =
                        IF r.response = NoResponse THEN "endpoint" ELSE "respond"]
    /\ UNCHANGED <<routes, served>>

\* Router.app: match the scope against the route table.
Dispatch(c) ==
    /\ pc[c] = "routing"
    /\ LET r == router(routes, scope[c])
       IN  /\ scope' = [scope EXCEPT ![c] = r.scope]
           /\ response' = [response EXCEPT ![c] = r.response]
           /\ pc' = [pc EXCEPT ![c] =
                        IF r.response = NoResponse THEN "endpoint" ELSE "respond"]
    /\ UNCHANGED <<routes, served>>

\* Variant: the endpoint call registers its route again.
CallEndpoint_registering(c) ==
    /\ pc[c] = "endpoint"
    /\ response' = [response EXCEPT ![c] =
                        request_response(scope[c].endpoint, scope[c].path_params)]
    /\ pc' = [pc EXCEPT ![c] = "respond"]
    /\ routes' = Append(routes, get(scope[c].path, scope[c].endpoint))
    /\ UNCHANGED <<scope, served>>

\* Route.handle: call the endpoint, wrap what it returns.
CallEndpoint(c) ==
    /\ pc[c] = "endpoint"
    /\ response' = [response EXCEPT ![c] =
                        request_response(scope[c].endpoint, scope[c].path_params)]
    /\ pc' = [pc EXCEPT ![c] = "respond"]
    /\ UNCHANGED <<routes, scope, served>>

Request(c) == [method |-> scope[c].method, raw_path |-> scope[c].raw_path]

\* The response goes out and the connection is free again.  The history
\* variable may keep this exchange if it holds none yet.
Send(c) ==
    /\ pc[c] = "respond"
    /\ pc' = [pc EXCEPT ![c] = "idle"]
    /\ scope' = [scope EXCEPT ![c] = NoScope]
    /\ response' = [response EXCEPT ![c] = NoResponse]
    /\ \/ UNCHANGED served
       \/ /\ served = {}
          /\ served' = {[request |-> Request(c), response |-> response[c]]}
    /\ UNCHANGED routes

\* One connection, every request of the bounded request set.
Next ==
    \/ \E req \in Requests : Receive(1, req)
    \/ Dispatch(1)
    \/ CallEndpoint(1)
    \/ Send(1)

Spec == Init /\ [][Next]_vars

\* Several connections in flight at once, their steps interleaved.
NextConc ==
    \E c \in Conns :
        \/ \E req \in ConcRequests : Receive(c, req)
        \/ Dispatch(c)
        \/ CallEndpoint(c)
        \/ Send(c)

SpecConc == Init /\ [][NextConc]_vars

-----------------------------------------------------------------------------
(* Vocabulary of the properties *)

Responding(c) == pc[c] = "respond"

\* The raw path is "/hello/" followed by the segment s (possibly empty).
IsHelloRequest(raw) == Len(raw) >= 3 /\ SubSeq(raw, 1, 3) = <<"/", "hello", "/">>

NameOf(raw) == SubSeq(raw, 4, Len(raw))

NoSeparator(s) == \A i \in 1 .. Len(s) : s[i] # "/"

\* Decoded paths of the two routes of main.py.
HelloPath(p) ==
    /\ Len(p) >= 4
    /\ SubSeq(p, 1, 3) = <<"/", "hello", "/">>
    /\ NoSeparator(SubSeq(p, 4, Len(p)))

RegisteredPath(p) == p = <<"/">> \/ HelloPath(p)

\* Decoded paths of the routes FastAPI() registers by default.
DocsPath(p) ==
    p \in { <<"/", "openapi.json">>, <<"/", "docs">>,
            <<"/", "docs", "/", "oauth2-redirect">>, <<"/", "redoc">> }

RoutedPath(p) == RegisteredPath(p) \/ DocsPath(p)

\* The body is a JSON object with the single field f, a string.
HasOnlyStringField(body, f) ==
    /\ DOMAIN body = {"json"}
    /\ DOMAIN body.json = {f}
    /\ body.json[f] \in Seq(STRING)

IsApplicationJson(resp) ==
    /\ "content-type" \in DOMAIN resp.headers
    /\ resp.headers["content-type"] = <<"application/json">>

\* The response a request gets when it is the only one the process ever
\* serves: routed over the startup route table, then its endpoint called.
ServedAlone(req) ==
    LET sc == [method      |-> req.method,
               raw_path    |-> req.raw_path,
               path        |-> unquote(req.raw_path),
               endpoint    |-> "",
               path_params |-> << >>]
        r  == router(app, sc)
    IN  IF r.response = NoResponse
        THEN request_response(r.scope.endpoint, r.scope.path_params)
        ELSE r.response

-----------------------------------------------------------------------------
(* The properties *)

\* C1: every GET / is answered 200 with the body
\* {"message": "Welcome to the FastAPI ECS Fargate app!"}, whatever was
\* served before.
C1_RootGreeting ==
    \A c \in Conns :
        (Responding(c) /\ scope[c].method = "GET" /\ scope[c].raw_path = <<"/">>)
        => /\ response[c].status_code = 200
           /\ response[c].body =
                [json |-> [message |-> <<"Welcome to the FastAPI ECS Fargate app!">>]]

\* C1 witness: a GET / is being answered after an earlier exchange.
C1_Witness ==
    \E c \in Conns :
        /\ Responding(c) /\ scope[c].method = "GET" /\ scope[c].raw_path = <<"/">>
        /\ served # {}
        /\ response[c].status_code = 200

\* C2 as written: for every s without a path separator, GET /hello/{s} is
\* answered 200 with {"message": "Hello <decoded s>!"}.
C2_AnySegment ==
    \A c \in Conns :
        (/\ Responding(c) /\ scope[c].method = "GET"
         /\ IsHelloRequest(scope[c].raw_path)
         /\ NoSeparator(NameOf(scope[c].raw_path)))
        => /\ response[c].status_code = 200
           /\ response[c].body =
                [json |-> [message |-> <<"Hello ">>
                                       \o unquote(NameOf(scope[c].raw_path))
                                       \o <<"!">>]]

\* C2 amended: for every non-empty s whose decoded value holds no path
\* separator, GET /hello/{s} is answered 200 with
\* {"message": "Hello <decoded s>!"}, the decoded value inserted unchanged.
C2_NonEmptyDecodedSegment ==
    \A c \in Conns :
        (/\ Responding(c) /\ scope[c].method = "GET"
         /\ IsHelloRequest(scope[c].raw_path)
         /\ NameOf(scope[c].raw_path) # << >>
         /\ NoSeparator(unquote(NameOf(scope[c].raw_path))))
        => /\ response[c].status_code = 200
           /\ response[c].body =
                [json |-> [message |-> <<"Hello ">>
                                       \o unquote(NameOf(scope[c].raw_path))
                                       \o <<"!">>]]

\* C2 witness: GET /hello/%E4%B8%96 is answered with the decoded name.
C2_Witness ==
    \E c \in Conns :
        /\ Responding(c) /\ scope[c].method = "GET"
        /\ scope[c].raw_path = <<"/", "hello", "/", "%E4%B8%96">>
        /\ response[c].body = [json |-> [message |-> <<"Hello ", "U+4E16", "!">>]]

\* C3 as written: a path matching neither "/" nor "/hello/{name}" is answered
\* 404, and only those two routes answer 200.
C3_OnlyTwoRoutes ==
    \A c \in Conns :
        Responding(c)
        => /\ ~RegisteredPath(scope[c].path) => response[c].status_code = 404
           /\ response[c].status_code = 200 => RegisteredPath(scope[c].path)

\* C3 amended: a path matching none of the six routes of the table (the two
\* of main.py and the four FastAPI() registers) is never answered 200: it is
\* answered 307 when the path with its trailing slash added or removed
\* matches a route, and 404 otherwise.
C3_UnroutedNeverOk ==
    \A c \in Conns :
        Responding(c)
        => /\ ~RoutedPath(scope[c].path)
              => response[c].status_code =
                    IF RoutedPath(redirect_path(scope[c].path)) THEN 307 ELSE 404
           /\ response[c].status_code = 200 => RoutedPath(scope[c].path)

\* C3 witness: a request for /hello (no route, no slash variant) gets 404.
C3_Witness ==
    \E c \in Conns :
        /\ Responding(c)
        /\ scope[c].path = <<"/", "hello">>
        /\ response[c].status_code = 404

\* C4: a request on the path of a registered route with a method other than
\* GET is answered 405, never 200, and never reaches the endpoint call.
C4_MethodNotAllowed ==
    \A c \in Conns :
        (RegisteredPath(scope[c].path) /\ scope[c].method # "GET")
        => /\ pc[c] # "endpoint"
           /\ Responding(c) => response[c].status_code = 405

\* C4 witness: POST / is being answered 405.
C4_Witness ==
    \E c \in Conns :
        /\ Responding(c) /\ scope[c].method = "POST" /\ scope[c].raw_path = <<"/">>
        /\ response[c].status_code = 405

\* C5: GET /hello/ is answered 404 and read_item is never the matched
\* endpoint with an empty name.
C5_EmptyNameNotFound ==
    \A c \in Conns :
        /\ (Responding(c) /\ scope[c].raw_path = <<"/", "hello", "/">>)
           => response[c].status_code = 404
        /\ scope[c].endpoint = "read_item"
           => /\ "name" \in DOMAIN scope[c].path_params
              /\ scope[c].path_params["name"] # << >>

\* C5 witness: GET /hello/ is being answered 404.
C5_Witness ==
    \E c \in Conns :
        /\ Responding(c) /\ scope[c].method = "GET"
        /\ scope[c].raw_path = <<"/", "hello", "/">>
        /\ response[c].status_code = 404

\* C6: a request equal to one answered earlier, however many requests were
\* served in between, gets a response equal to the earlier one.
C6_Idempotent ==
    \A c \in Conns : \A e \in served :
        (Responding(c) /\ Request(c) = e.request) => response[c] = e.response

\* C6 witness: a GET / remembered from the past is being answered again.
C6_Witness ==
    \E c \in Conns : \E e \in served :
        /\ Responding(c) /\ Request(c) = e.request
        /\ e.request = [method |-> "GET", raw_path |-> <<"/">>]

\* C7 as written: every response, matched or not, is a JSON object whose
\* field message is present and a string.
C7_AlwaysMessage ==
    \A c \in Conns :
        Responding(c)
        => /\ DOMAIN response[c].body = {"json"}
           /\ "message" \in DOMAIN response[c].body.json
           /\ response[c].body.json["message"] \in Seq(STRING)

\* C7 amended: every response to a GET on a registered route is a JSON
\* object whose only field, message, is a string; every 404 and 405 response
\* is a JSON object whose only field, detail, is a string.
C7_MessageOrDetail ==
    \A c \in Conns :
        Responding(c)
        => /\ (RegisteredPath(scope[c].path) /\ scope[c].method = "GET")
              => HasOnlyStringField(response[c].body, "message")
           /\ response[c].status_code \in {404, 405}
              => HasOnlyStringField(response[c].body, "detail")

\* C7 witness: a read_item response and, before it, a remembered 404.
C7_Witness ==
    \E c \in Conns : \E e \in served :
        /\ Responding(c) /\ scope[c].endpoint = "read_item"
        /\ response[c].status_code = 200
        /\ e.response.status_code = 404

\* C8 as written: every response, the 404 and 405 included, has
\* Content-Type application/json.
C8_AlwaysJson ==
    \A c \in Conns : Responding(c) => IsApplicationJson(response[c])

\* C8 amended: every response to a request on a registered route, and every
\* 404 and 405 response, has Content-Type application/json.
C8_RegisteredAndErrorsJson ==
    \A c \in Conns :
        (/\ Responding(c)
         /\ \/ RegisteredPath(scope[c].path)
            \/ response[c].status_code \in {404, 405})
        => IsApplicationJson(response[c])

\* C8 witness: a 404 is being answered with Content-Type application/json.
C8_Witness ==
    \E c \in Conns :
        /\ Responding(c) /\ response[c].status_code = 404
        /\ IsApplicationJson(response[c])

C10_Isolation ==
    \A c \in Conns :
        Responding(c)
        => /\ response[c] = ServedAlone(Request(c))
           /\ \A d \in Conns :
                (Responding(d) /\ Request(d) = Request(c))
                => response[d] = response[c]

\* C10 witness: a read_item request is answered while another connection,
\* which asked for another name after it, is still in flight.
C10_Witness ==
    \E c, d \in Conns :
        /\ c # d
        /\ Responding(c) /\ scope[c].endpoint = "read_item"
        /\ response[c].status_code = 200
        /\ pc[d] \in {"endpoint", "respond"} /\ scope[d].endpoint = "read_item"
        /\ scope[d].path_params # scope[c].path_params

====
